---- MODULE Spec2Model ----
(***************************************************************************)
(* A model of the bipartite-SBM model-order-selection package:             *)
(*   - det_k_bisbm/int_part.py : the table of restricted integer           *)
(*     partitions (init_q_cache, log_q);                                   *)
(*   - det_k_bisbm/utils.py    : block summaries and description length;   *)
(*   - engines/mcmc.py, kl.py  : the adapters around the engine process;   *)
(*   - det_k_bisbm/optimalks.py: the search driver OptimalKs.              *)
(*                                                                         *)
(* Real numbers.  Every logarithm the code takes is the logarithm of a     *)
(* positive integer, a factorial or a binomial.  A table entry log(c) is   *)
(* represented by the integer c (0 for -inf), and a description length by  *)
(* the vector of exponents of the primes in exp(DL), so that two values    *)
(* are equal exactly when their representations are.                       *)
(***************************************************************************)
EXTENDS Integers, Sequences, FiniteSets, TLC

VARIABLES
    q_cache,     \* int_part: the table built by init_q_cache (entry = count)
    q_n, q_k,    \* int_part: the arguments of the last log_q call
    q_ret,       \* int_part: the value the last log_q call returned
    dl_in,       \* utils: the arguments of the last get_desc_len_from_data call
    dl_out,      \* utils: the value it returned
    dl_prev,     \* utils: arguments and value of the call before a relabelling
    ad_kind,        \* engines: which adapter's engine() is running
    ad_num_sweeps_, \* engines: num_sweeps_, the successful runs wanted
    ad_num_sweep_,  \* engines: num_sweep_, the successful runs so far
    ad_pc,          \* engines: "loop", "returned" or "raised"
    ad_runs,        \* engines: the return codes of the processes run so far
    ad_kl_output,   \* engines: kl_output, score -> run whose partition it holds
    ad_ret,         \* engines: the run whose partition engine() returned
    ad_err,         \* engines: the message of the RuntimeError raised
    graph,               \* OptimalKs: edgelist, n_a, n_b
    self_ka, self_kb,    \* OptimalKs: self.ka, self.kb
    i_0,                 \* OptimalKs: self.i_0 as the fraction num/den
    adaptive_ratio,      \* OptimalKs: self.adaptive_ratio, in tenths
    init_italic_i,       \* OptimalKs: self.init_italic_i
    exist_bookkeeping,   \* OptimalKs: self.exist_bookkeeping
    self_m_e_rs,         \* OptimalKs: self.m_e_rs (<<>> before it is set)
    confident_desc_len,  \* OptimalKs: OrderedDict (ka, kb) -> description length
    confident_m_e_rs,    \* OptimalKs: OrderedDict (ka, kb) -> matrix
    confident_italic_i,  \* OptimalKs: OrderedDict (ka, kb) -> italic_i
    trace_mb,            \* OptimalKs: OrderedDict (ka, kb) -> partition
    pc,                  \* OptimalKs: where the running call stands
    items,               \* OptimalKs: points the running check has yet to fit
    outcome,             \* OptimalKs: how the last call ended
    runs,                \* iterator() calls that returned
    first_estimate,      \* bookkeeping argmin when iterator() first returned
    tmp_files,           \* the temporary edge-list files that exist, by name
    f_edgelist_name,     \* OptimalKs: self._f_edgelist_name
    is_tempfile_existed, \* OptimalKs: self.is_tempfile_existed
    user_calls,          \* compute_and_update() calls made from outside
    engine_,             \* the engine: its answer at every point asked so far
    sweeps,      \* OptimalKs._calc_with_hook: the locals of one uncached call
    scorer,      \* utils: arguments and result of the last virtual_moves_ds call
    merger       \* utils: arguments and result of the last accept_mb_merge call

qvars == <<q_cache, q_n, q_k, q_ret>>
dlvars == <<dl_in, dl_out, dl_prev>>
advars == <<ad_kind, ad_num_sweeps_, ad_num_sweep_, ad_pc, ad_runs,
            ad_kl_output, ad_ret, ad_err>>
bookvars == <<confident_desc_len, confident_m_e_rs, confident_italic_i, trace_mb>>
filevars == <<tmp_files, f_edgelist_name, is_tempfile_existed>>
drvvars == <<graph, self_ka, self_kb, i_0, adaptive_ratio, init_italic_i,
             exist_bookkeeping, self_m_e_rs, bookvars, pc, items, outcome, runs,
             first_estimate, filevars, user_calls, engine_>>

auxvars == <<sweeps, scorer, merger>>

vars == <<qvars, dlvars, advars, drvvars, auxvars>>

(***************************************************************************)
(* Bounds                                                                  *)
(***************************************************************************)
\* largest n_max handed to init_q_cache
MaxTable == 5
\* log_q is called with arguments up to the table size plus QSlack
QSlack == 2
\* primes up to PrimeCap carry the exact logarithms
PrimeCap == 13
\* q_cache_max_e_r of degree_entropy, scaled to the graphs of the model
QCacheMax == 8
\* processes one engine() call may start
MaxProcessRuns == 4
\* largest MAX_NUM_SWEEPS of the KL adapter
MaxSweeps == 2
\* times the driver multiplies i_0 by adaptive_ratio
MaxShrinks == 2
\* points at which the engine answers with something else than a sound fit
MaxFaults == 1
\* points at which the engine's fit has a description length below 0
MaxLowPoints == 1
\* iterator() calls on one driver
MaxIteratorRuns == 2
\* compute_and_update() calls made from outside on one driver
MaxUserCalls == 1

(***************************************************************************)
(* int_part.py                                                             *)
(***************************************************************************)
\* log_sum(a, b) = log(e^a + e^b): on counts it is the sum; -inf is count 0.
log_sum(a, b) == a + b

\* The cell __q_cache[n][k] after the loops of init_q_cache(n_max), by the
\* loops' own recurrence: row n reads row n (column k-1) and row n-k
\* (column k) of the table as filled so far; cells the loops never write
\* keep the fill value -inf (count 0).
RECURSIVE QCell(_, _)
QCell(n, k) ==
    IF n < 1 \/ k < 1 \/ k > n THEN 0
    ELSE IF k = 1 THEN 1
    ELSE LET first == log_sum(0, QCell(n, k - 1))
         IN  IF n > k THEN log_sum(first, QCell(n - k, k)) ELSE first

\* init_q_cache(n_max): an (n_max+1) x (n_max+1) table.
init_q_cache(n_max) ==
    [n \in 0..n_max |-> [k \in 0..n_max |-> QCell(n, k)]]

\* __q_cache.shape[0]
Shape0(cache) == Cardinality(DOMAIN cache)

\* A value returned by log_q: the log of an integer count, or the value of
\* one of the two closed-form approximations at (n, k).
Exact(c) == [kind |-> "exact", cnt |-> c, n |-> 0, k |-> 0]

log_q_approx_small(n, k) == [kind |-> "small", cnt |-> 0, n |-> n, k |-> k]

\* k < pow(n, 1/4)  <=>  k^4 < n
log_q_approx(n, k) ==
    IF k * k * k * k < n THEN log_q_approx_small(n, k)
    ELSE [kind |-> "asymptotic", cnt |-> 0, n |-> n, k |-> k]

\* log_q without the clamp k > n -> k = n
log_q_noclamp(n, k, cache) ==
    IF n <= 0 \/ k < 1 THEN Exact(1)
    ELSE IF n < Shape0(cache)
         THEN Exact(IF k \in DOMAIN cache[n] THEN cache[n][k] ELSE 0)
         ELSE log_q_approx(n, k)

log_q(n, k, cache) ==
    IF n <= 0 \/ k < 1 THEN Exact(1)
    ELSE LET kk == IF k > n THEN n ELSE k
         IN  IF n < Shape0(cache) THEN Exact(cache[n][kk])
             ELSE log_q_approx(n, kk)

\* Number of partitions of m into at most n positive parts, each part at
\* most mx, by enumeration of the largest part.
RECURSIVE CountPartitions(_, _, _)
CountPartitions(m, n, mx) ==
    IF m = 0 THEN 1
    ELSE IF n = 0 THEN 0
    ELSE LET firsts == 1..(IF m < mx THEN m ELSE mx)
             RECURSIVE Sum(_)
             Sum(S) == IF S = {} THEN 0
                       ELSE LET f == CHOOSE x \in S : TRUE
                            IN  CountPartitions(m - f, n - 1, f) + Sum(S \ {f})
         IN  Sum(firsts)

NumPartitionsAtMost(m, n) == CountPartitions(m, n, m)

(***************************************************************************)
(* Exact logarithms: log(n) as the vector of prime exponents of n.         *)
(***************************************************************************)
Primes == {p \in 2..PrimeCap : \A d \in 2..(p - 1) : p % d # 0}

VZero == [p \in Primes |-> 0]
VAdd(a, b) == [p \in Primes |-> a[p] + b[p]]
VSub(a, b) == [p \in Primes |-> a[p] - b[p]]
VScale(c, a) == [p \in Primes |-> c * a[p]]

RECURSIVE VP(_, _)
VP(n, p) == IF n > 0 /\ n % p = 0 THEN 1 + VP(n \div p, p) ELSE 0

\* np.log(n) for an integer n >= 1
LogNat(n) == [p \in Primes |-> VP(n, p)]

\* gammaln(n + 1) = log(n!) for an integer n >= 0
RECURSIVE LogFact(_)
LogFact(n) == IF n <= 1 THEN VZero ELSE VAdd(LogFact(n - 1), LogNat(n))

\* gammaln(x) for an integer x >= 1
gammaln(x) == LogFact(x - 1)

\* Sum of the vectors f[i], i in DOMAIN f
RECURSIVE VSumOver(_, _)
VSumOver(f, S) ==
    IF S = {} THEN VZero
    ELSE LET i == CHOOSE x \in S : TRUE
         IN  VAdd(f[i], VSumOver(f, S \ {i}))

VSum(f) == VSumOver(f, DOMAIN f)

RECURSIVE MaxOf(_)
MaxOf(S) ==
    LET x == CHOOSE y \in S : TRUE
    IN  IF S = {x} THEN x
        ELSE LET m == MaxOf(S \ {x}) IN IF x > m THEN x ELSE m

Range(f) == {f[i] : i \in DOMAIN f}

\* max(mb) for a partition held as a 0-indexed array
MaxLabel(mb) == MaxOf(Range(mb))

\* indices of a Python list held as a sequence
Idx(seq) == 1..Len(seq)

(***************************************************************************)
(* utils.py: block summaries                                               *)
(***************************************************************************)
\* lbinom(n, k) (int_part.py)
lbinom(n, k) == VSub(VSub(gammaln(n + 1), gammaln(n - k + 1)), gammaln(k + 1))

db_factorial_ln(m) ==
    IF m % 2 = 1
    THEN VSub(VSub(gammaln(m + 1), gammaln((m - 1) \div 2 + 1)),
              VScale((m - 1) \div 2, LogNat(2)))
    ELSE VAdd(gammaln(m \div 2 + 1), VScale(m \div 2, LogNat(2)))

assemble_n_r_from_mb(mb) ==
    [r \in 0..MaxLabel(mb) |-> Cardinality({i \in DOMAIN mb : mb[i] = r})]

\* the degree counted at the first column of the edge list only
Degree_out_only(edgelist, i) ==
    Cardinality({j \in Idx(edgelist) : edgelist[j][1] = i})

\* degree of node i: the number of edge ends at i
Degree(edgelist, i) ==
    Cardinality({j \in Idx(edgelist) : edgelist[j][1] = i})
    + Cardinality({j \in Idx(edgelist) : edgelist[j][2] = i})

\* k = np.zeros(len(mb) + 1): one slot more than there are nodes
assemble_n_k_from_edgelist(edgelist, mb) ==
    LET slots == 0..Cardinality(DOMAIN mb)
        k     == [i \in slots |-> Degree(edgelist, i)]
    IN  [d \in 0..MaxOf(Range(k)) |-> Cardinality({i \in slots : k[i] = d})]

\* e_rs[r][s]: both orientations of every edge are counted
EdgeCount(edgelist, mb, r, s) ==
    Cardinality({j \in Idx(edgelist) :
                    mb[edgelist[j][1]] = r /\ mb[edgelist[j][2]] = s})
    + Cardinality({j \in Idx(edgelist) :
                    mb[edgelist[j][2]] = r /\ mb[edgelist[j][1]] = s})

assemble_e_rs_from_mb(edgelist, mb) ==
    [r \in 0..MaxLabel(mb) |-> [s \in 0..MaxLabel(mb) |->
        EdgeCount(edgelist, mb, r, s)]]

assemble_eta_rk_from_edgelist_and_mb(edgelist, mb) ==
    LET nodes == DOMAIN mb
        max_  == MaxOf({Degree(edgelist, i) : i \in nodes})
    IN  [r \in 0..MaxLabel(mb) |-> [d \in 0..max_ |->
            Cardinality({i \in nodes : mb[i] = r /\ Degree(edgelist, i) = d})]]

\* row sums of a square matrix
RECURSIVE IntSumOver(_, _)
IntSumOver(f, S) ==
    IF S = {} THEN 0
    ELSE LET i == CHOOSE x \in S : TRUE IN f[i] + IntSumOver(f, S \ {i})

RowSums(m) == [r \in DOMAIN m |-> IntSumOver(m[r], DOMAIN m[r])]

MatrixSum(m) == IntSumOver(RowSums(m), DOMAIN m)

(***************************************************************************)
(* utils.py: entropies                                                     *)
(***************************************************************************)
\* m_ij of adjacency_entropy: the multiplicity of each (source, target)
\* pair as written in the edge list
Multiplicity(edgelist, pair) ==
    Cardinality({j \in Idx(edgelist) : edgelist[j] = pair})

adjacency_entropy(edgelist, mb) ==
    LET e_rs  == assemble_e_rs_from_mb(edgelist, mb)
        e_r   == RowSums(e_rs)
        K     == DOMAIN e_rs
        pairs == {edgelist[j] : j \in Idx(edgelist)}
        multi == {pr \in pairs : Multiplicity(edgelist, pr) > 1}
        sum_m_ii == VSum([pr \in {x \in multi : x[1] = x[2]} |->
                            db_factorial_ln(Multiplicity(edgelist, pr))])
        sum_m_ij == VSum([pr \in {x \in multi : x[1] # x[2]} |->
                            gammaln(Multiplicity(edgelist, pr) + 1)])
        sum_e_r  == VSum([r \in K |-> gammaln(e_r[r] + 1)])
        sum_e_rs == VSum([c \in {x \in K \X K : x[2] > x[1]} |->
                            gammaln(e_rs[c[1]][c[2]] + 1)])
        sum_e_rr == VSum([r \in K |-> db_factorial_ln(e_rs[r][r])])
        n_k      == assemble_n_k_from_edgelist(edgelist, mb)
        ent_deg  == VScale(-1, VSum([d \in {x \in DOMAIN n_k :
                                                x # 0 /\ n_k[x] # 0} |->
                                        VScale(n_k[d], gammaln(d + 1))]))
    IN  VAdd(VAdd(VAdd(VSub(VSub(ent_deg, sum_e_rs), sum_e_rr), sum_e_r),
                  sum_m_ii), sum_m_ij)

\* the bipartite two-level prior (ka, kb given, k not given, no empty groups)
partition_entropy(ka, kb, na, nb, nr) ==
    LET ent == VAdd(lbinom(na - 1, ka - 1), lbinom(nb - 1, kb - 1))
    IN  VAdd(VAdd(VAdd(ent,
                       VSub(VAdd(gammaln(na + 1), gammaln(nb + 1)),
                            VSum([r \in DOMAIN nr |-> gammaln(nr[r] + 1)]))),
                  LogNat(na)), LogNat(nb))

\* model_entropy with is_bipartite = False: x = k (k + 1) / 2
model_entropy_flat(e, ka, kb, na, nb, nr) ==
    LET k == ka + kb
        x == (k * (k + 1)) \div 2
    IN  VAdd(lbinom(x + e - 1, e), partition_entropy(ka, kb, na, nb, nr))

model_entropy(e, ka, kb, na, nb, nr) ==
    LET x == ka * kb
    IN  VAdd(lbinom(x + e - 1, e), partition_entropy(ka, kb, na, nb, nr))

\* the value of a log_q result (the table covers every block degree)
LogQValue(v) == LogNat(v.cnt)

\* e_r of degree_entropy: the number of edge ends in each block
BlockDegree(edgelist, mb) ==
    [r \in 0..MaxLabel(mb) |->
        Cardinality({j \in Idx(edgelist) : mb[edgelist[j][1]] = r})
        + Cardinality({j \in Idx(edgelist) : mb[edgelist[j][2]] = r})]

\* degree_entropy with every block's log_q read at the size of block 0
degree_entropy_first_size(edgelist, mb, cache) ==
    LET n_r    == assemble_n_r_from_mb(mb)
        e_r    == BlockDegree(edgelist, mb)
        eta_rk == assemble_eta_rk_from_edgelist_and_mb(edgelist, mb)
    IN  VAdd(VSum([r \in DOMAIN n_r |-> LogQValue(log_q(e_r[r], n_r[0], cache))]),
             VSum([r \in DOMAIN eta_rk |->
                     VSub(gammaln(n_r[r] + 1),
                          VSum([d \in DOMAIN eta_rk[r] |->
                                   gammaln(eta_rk[r][d] + 1)]))]))

\* degree_dl_kind = "distributed"
degree_entropy(edgelist, mb, cache) ==
    LET n_r    == assemble_n_r_from_mb(mb)
        e_r    == BlockDegree(edgelist, mb)
        eta_rk == assemble_eta_rk_from_edgelist_and_mb(edgelist, mb)
    IN  VAdd(VSum([r \in DOMAIN n_r |-> LogQValue(log_q(e_r[r], n_r[r], cache))]),
             VSum([r \in DOMAIN eta_rk |->
                     VSub(gammaln(n_r[r] + 1),
                          VSum([d \in DOMAIN eta_rk[r] |->
                                   gammaln(eta_rk[r][d] + 1)]))]))

\* diff = False
get_desc_len_from_data(na, nb, n_edges, ka, kb, edgelist, mb, nr, cache) ==
    VAdd(VAdd(adjacency_entropy(edgelist, mb),
              model_entropy(n_edges, ka, kb, na, nb, nr)),
         degree_entropy(edgelist, mb, cache))

(***************************************************************************)
(* Inputs: graphs (n_a type-a nodes 0..n_a-1, then n_b type-b nodes) and   *)
(* partitions                                                              *)
(***************************************************************************)
Graph(na, nb, edgelist) == [na |-> na, nb |-> nb, edgelist |-> edgelist]

\* simple bipartite graphs, one with a parallel edge, one with an edge
\* inside side a
GraphPath      == Graph(2, 2, << <<0, 2>>, <<0, 3>>, <<1, 3>> >>)
GraphParallel  == Graph(2, 2, << <<0, 2>>, <<0, 2>>, <<1, 3>> >>)
GraphTwoThree  == Graph(2, 3, << <<0, 2>>, <<1, 3>>, <<1, 4>>, <<0, 4>> >>)
GraphSameSide  == Graph(2, 2, << <<0, 1>>, <<0, 2>>, <<1, 3>> >>)

Nodes(g) == 0..(g.na + g.nb - 1)

\* block purity: type-a nodes carry labels < ka, type-b nodes labels >= ka
IsBlockPure(g, ka, mb) ==
    \A i \in DOMAIN mb : (i < g.na) <=> (mb[i] < ka)

PurePartitions(g, ka, kb) ==
    {mb \in [Nodes(g) -> 0..(ka + kb - 1)] : IsBlockPure(g, ka, mb)}

\* bijections of the labels 0..ka+kb-1 that keep each label on its side
SameTypeRelabellings(ka, kb) ==
    {pi \in [0..(ka + kb - 1) -> 0..(ka + kb - 1)] :
        /\ \A r, s \in DOMAIN pi : r # s => pi[r] # pi[s]
        /\ \A r \in DOMAIN pi : (r < ka) <=> (pi[r] < ka)}

(***************************************************************************)
(* engines/mcmc.py, engines/kl.py: engine(), one process run per step      *)
(***************************************************************************)
\* return codes of the engine process: success, the code the adapters test
\* for (-11), and two other failures
ReturnCodes == {0, -11, 1, -9}
\* scores the KL runs report
Scores == {1, 2}

\* the RuntimeError message ends with the command line
ErrorWith(action_str) == <<"Exception from C++ program during inference! -- ", action_str>>

AdIdle ==
    /\ ad_kind = "none" /\ ad_num_sweeps_ = 0 /\ ad_num_sweep_ = 0
    /\ ad_pc = "returned" /\ ad_runs = <<>> /\ ad_kl_output = <<>>
    /\ ad_ret = 0 /\ ad_err = <<>>

\* the state on entering the while loop of engine()
AdInit ==
    /\ \/ ad_kind = "mcmc" /\ ad_num_sweeps_ = 1
       \/ ad_kind = "kl" /\ ad_num_sweeps_ \in 1..MaxSweeps
    /\ ad_num_sweep_ = 0
    /\ ad_pc = "loop"
    /\ ad_runs = <<>>
    /\ ad_kl_output = <<>>
    /\ ad_ret = 0
    /\ ad_err = <<>>

\* one pass of the while loop of MCMC.engine, with the return when the
\* loop condition fails after it
MCMC_engine(returncode) ==
    /\ ad_kind = "mcmc" /\ ad_pc = "loop"
    /\ ad_num_sweep_ < ad_num_sweeps_
    /\ Len(ad_runs) < MaxProcessRuns
    /\ ad_runs' = Append(ad_runs, returncode)
    /\ IF returncode = -11
       THEN /\ ad_pc' = "raised"
            /\ ad_err' = ErrorWith("action_str")
            /\ UNCHANGED <<ad_num_sweep_, ad_ret>>
       ELSE IF returncode = 0
       THEN /\ ad_num_sweep_' = ad_num_sweep_ + 1
            /\ ad_ret' = Len(ad_runs')
            /\ ad_pc' = IF ad_num_sweep_' < ad_num_sweeps_ THEN "loop" ELSE "returned"
            /\ UNCHANGED ad_err
       ELSE UNCHANGED <<ad_num_sweep_, ad_ret, ad_pc, ad_err>>
    /\ UNCHANGED <<ad_kind, ad_num_sweeps_, ad_kl_output>>
    /\ UNCHANGED <<qvars, dlvars, drvvars, auxvars>>

\* kl_output[score] = partition: a dict assignment
DictPut(d, key, val) == [x \in DOMAIN d \cup {key} |-> IF x = key THEN val ELSE d[x]]

\* one pass of the while loop of KL.engine (KL_PARALLELIZATION is False),
\* with the return of kl_output[max(kl_output)] after the last pass
KL_engine(returncode, score) ==
    /\ ad_kind = "kl" /\ ad_pc = "loop"
    /\ ad_num_sweep_ < ad_num_sweeps_
    /\ Len(ad_runs) < MaxProcessRuns
    /\ ad_runs' = Append(ad_runs, returncode)
    /\ IF returncode = -11
       THEN /\ ad_pc' = "raised"
            /\ ad_err' = ErrorWith("action_str")
            /\ UNCHANGED <<ad_num_sweep_, ad_ret, ad_kl_output>>
       ELSE IF returncode = 0
       THEN /\ ad_num_sweep_' = ad_num_sweep_ + 1
            /\ ad_kl_output' = DictPut(ad_kl_output, score, Len(ad_runs'))
            /\ IF ad_num_sweep_' < ad_num_sweeps_
               THEN ad_pc' = "loop" /\ UNCHANGED ad_ret
               ELSE /\ ad_pc' = "returned"
                    /\ ad_ret' = ad_kl_output'[MaxOf(DOMAIN ad_kl_output')]
            /\ UNCHANGED ad_err
       ELSE UNCHANGED <<ad_num_sweep_, ad_ret, ad_pc, ad_err, ad_kl_output>>
    /\ UNCHANGED <<ad_kind, ad_num_sweeps_>>
    /\ UNCHANGED <<qvars, dlvars, drvvars, auxvars>>

AdNext ==
    \/ \E returncode \in ReturnCodes : MCMC_engine(returncode)
    \/ \E returncode \in ReturnCodes, score \in Scores : KL_engine(returncode, score)

(***************************************************************************)
(* optimalks.py: ordered maps (collections.OrderedDict)                    *)
(***************************************************************************)
\* an OrderedDict is the sequence of its items in insertion order
Has(d, key) == \E i \in DOMAIN d : d[i].k = key
Get(d, key) == d[CHOOSE i \in DOMAIN d : d[i].k = key].v
\* d[key] = val: a present key keeps its place, a new key goes last
Put(d, key, val) ==
    IF Has(d, key)
    THEN [i \in DOMAIN d |-> IF d[i].k = key THEN [k |-> key, v |-> val] ELSE d[i]]
    ELSE Append(d, [k |-> key, v |-> val])

\* sorted(d, key=d.get)[0]: the first-inserted key among those of least value
ArgMinKey(d) ==
    LET i == CHOOSE x \in DOMAIN d :
                 /\ \A y \in DOMAIN d : d[x].v <= d[y].v
                 /\ \A y \in DOMAIN d : (d[y].v = d[x].v) => x <= y
    IN  d[i].k

(***************************************************************************)
(* optimalks.py: matrices                                                  *)
(***************************************************************************)
IsSymmetric(m) == \A r \in DOMAIN m : \A s \in DOMAIN m : m[r][s] = m[s][r]

\* get_m_e_rs_from_mb with only m_e_rs[source][target] incremented
get_m_e_rs_one_way(edgelist, mb) ==
    [ok |-> \A j \in Idx(edgelist) : mb[edgelist[j][1]] # mb[edgelist[j][2]],
     m  |-> [r \in 0..MaxLabel(mb) |-> [s \in 0..MaxLabel(mb) |->
                Cardinality({j \in Idx(edgelist) :
                    mb[edgelist[j][1]] = r /\ mb[edgelist[j][2]] = s})]]]

\* get_m_e_rs_from_mb: ImportError (ok = FALSE) when the two ends of an
\* edge carry the same label, else the matrix
get_m_e_rs_from_mb(edgelist, mb) ==
    [ok |-> \A j \in Idx(edgelist) : mb[edgelist[j][1]] # mb[edgelist[j][2]],
     m  |-> [r \in 0..MaxLabel(mb) |-> [s \in 0..MaxLabel(mb) |->
                EdgeCount(edgelist, mb, r, s)]]]

\* permutations of 0..n-1 (np.random.shuffle of np.arange(n))
Perms(n) ==
    {p \in [0..(n - 1) -> 0..(n - 1)] : \A i, j \in 0..(n - 1) : i # j => p[i] # p[j]}

\* random.choices([0, ka], weights=[ka, kb]) with the overrides left out
FromRows_no_override(ka, kb) == {0, ka}

\* the two values random.choices([0, ka], weights=[ka, kb]) can draw, after
\* the overrides for ka = 1 and kb = 1
FromRows(ka, kb) ==
    IF ka = 1 THEN {ka} ELSE IF kb = 1 THEN {0} ELSE {0, ka}

\* rows 0 and 1 of a (n rows) added into row 0, the rows below moved up
MergeFirstTwoRows(a, n, w) ==
    [i \in 0..(n - 2) |-> [j \in 0..(w - 1) |->
        IF i = 0 THEN a[0][j] + a[1][j] ELSE a[i + 1][j]]]

\* merge_matrix(ka, kb, m_e_rs) for one draw of from_row and perm
merge_matrix(ka, kb, m_e_rs, from_row, perm) ==
    LET a == [i \in 0..(ka - 1) |-> [j \in 0..(kb - 1) |-> m_e_rs[i][ka + j]]]
        new_ka == IF from_row = 0 THEN ka - 1 ELSE ka
        new_kb == IF from_row = 0 THEN kb ELSE kb - 1
        \* b as a new_ka x new_kb matrix in both branches
        b == IF from_row = 0
             THEN MergeFirstTwoRows([i \in 0..(ka - 1) |-> a[perm[i]]], ka, kb)
             ELSE LET at  == [j \in 0..(kb - 1) |-> [i \in 0..(ka - 1) |->
                                 a[i][perm[j]]]]
                      bt0 == MergeFirstTwoRows(at, kb, ka)
                  IN  [i \in 0..(ka - 1) |-> [j \in 0..(kb - 2) |-> bt0[j][i]]]
        K == new_ka + new_kb
        c == [i \in 0..(K - 1) |-> [j \in 0..(K - 1) |->
                 IF j < new_ka /\ new_ka <= i THEN b[j][i - new_ka]
                 ELSE IF i < new_ka /\ new_ka <= j THEN b[i][j - new_ka]
                 ELSE 0]]
        merge_list == IF from_row = 0 THEN <<perm[0], perm[1]>>
                      ELSE <<perm[0] + ka, perm[1] + ka>>
    IN  [ka |-> new_ka, kb |-> new_kb, m |-> c, mlist |-> merge_list]

\* every result one call of merge_matrix can give
MergeResults(ka, kb, m_e_rs) ==
    UNION {{merge_matrix(ka, kb, m_e_rs, fr, perm) :
               perm \in Perms(IF fr = 0 THEN ka ELSE kb)} :
           fr \in FromRows(ka, kb)}

(***************************************************************************)
(* The engine, seen from the driver: a fixed function of the point         *)
(***************************************************************************)
\* Description lengths are not computed as real numbers: a value is its
\* rank.  _cal_desc_len gives 0 at (1, 1), where italic_i = log 2; the
\* other points lie below or above it.
DLValues == {-1, 1}
\* the points the engine has answered below rank 0
LowPoints(eng) == {p \in DOMAIN eng : eng[p].dl < 0}
RanksAt(point, eng) ==
    IF point = <<1, 1>> THEN {0}
    ELSE IF Cardinality(LowPoints(eng)) < MaxLowPoints THEN DLValues
    ELSE {dl \in DLValues : dl > 0}

Min(a, b) == IF a <= b THEN a ELSE b

\* ka blocks on side a and kb on side b, every label used (at most as many
\* blocks as nodes on a side)
Canon(gr, a, b) ==
    [i \in Nodes(gr) |->
        IF i < gr.na THEN i % Min(a, gr.na)
        ELSE Min(a, gr.na) + ((i - gr.na) % Min(b, gr.nb))]

\* the labels a - 1 and a exchanged: max + 1 is kept, block purity is lost
Impure(gr, a, b) ==
    [i \in Nodes(gr) |->
        LET l == Canon(gr, a, b)[i]
        IN  IF l = a - 1 THEN a ELSE IF l = a THEN a - 1 ELSE l]

\* one type-b block too few, its highest label moved up by one: the label
\* a + b - 2 is unused, max + 1 is a + b
Gapped(gr, a, b) ==
    [i \in Nodes(gr) |->
        LET l == Canon(gr, a, b - 1)[i]
        IN  IF l = a + b - 2 THEN a + b - 1 ELSE l]

Answer(kind, mb, dl) == [kind |-> kind, mb |-> mb, dl |-> dl]
NoAnswer == Answer("none", <<>>, 0)

IsFeasible(gr, point) ==
    /\ 1 <= point[1] /\ point[1] <= gr.na
    /\ 1 <= point[2] /\ point[2] <= gr.nb

\* answers that are no sound fit at a point that has one: an error of the
\* adapter, a partition that mixes the sides, one block too few (the unused
\* label being the highest, or one below it), all nodes in one block
FaultyAnswers(gr, point, eng) ==
    {Answer("raise", <<>>, 0), Answer("samegroup", [i \in Nodes(gr) |-> 0], 0)}
    \cup {Answer("impure", Impure(gr, point[1], point[2]), dl) : dl \in RanksAt(point, eng)}
    \cup (IF point[2] > 1
          THEN {Answer("deficient", Canon(gr, point[1], point[2] - 1), dl) :
                    dl \in RanksAt(point, eng)}
               \cup {Answer("gapped", Gapped(gr, point[1], point[2]), dl) :
                         dl \in RanksAt(point, eng)}
          ELSE {})

Faults(eng) ==
    Cardinality({p \in DOMAIN eng : eng[p].kind \notin {"fit", "short"}})

\* what engine_(f_edgelist, n_a, n_b, ka, kb) may answer the first time it
\* is asked at a point; asked for more blocks than a side has nodes, it
\* fails or answers with fewer blocks
EngineAnswers(gr, point, eng) ==
    IF IsFeasible(gr, point)
    THEN {Answer("fit", Canon(gr, point[1], point[2]), dl) : dl \in RanksAt(point, eng)}
         \cup (IF Faults(eng) < MaxFaults THEN FaultyAnswers(gr, point, eng) ELSE {})
    ELSE {Answer("raise", <<>>, 0)}
         \cup {Answer("short", Canon(gr, point[1], point[2]), dl) : dl \in RanksAt(point, eng)}

(***************************************************************************)
(* optimalks.py: OptimalKs                                                 *)
(***************************************************************************)
k_th_nb_to_search == 1

\* init_italic_i = 0.
ItalicZero == [m |-> <<>>, dl |-> 0]

\* get_italic_i_from_m_e_rs(m_e_rs): the real number is not computed; it is
\* kept as the matrix it comes from, with the rank of the description length
\* that _cal_desc_len derives from it at the point fitted
get_italic_i_from_m_e_rs(m, dl) == [m |-> m, dl |-> dl]

_cal_desc_len(a, b, italic_i) == italic_i.dl

\* _is_this_mdl with "i <= desc_len" for "i < desc_len"
_is_this_mdl_le(dlmap, desc_len) ==
    IF exist_bookkeeping
    THEN ~ \E i \in DOMAIN dlmap : dlmap[i].v <= desc_len
    ELSE TRUE

_is_this_mdl(dlmap, desc_len) ==
    IF exist_bookkeeping
    THEN ~ \E i \in DOMAIN dlmap : dlmap[i].v < desc_len
    ELSE TRUE

\* _calc_with_hook without the fetch: every call fits anew
CacheHit_never(dlmap, point) == FALSE

\* the test of _calc_with_hook for fetching instead of fitting
CacheHit(dlmap, point) == Has(dlmap, point) /\ Get(dlmap, point) # 0

\* _calc_with_hook(ka, kb): the fetched or the newly fitted
\* (italic_i, m_e_rs, mb); ok = FALSE when an exception leaves it
_calc_with_hook(dlmap, point, ans) ==
    IF CacheHit(dlmap, point)
    THEN IF Has(confident_italic_i, point) /\ Has(confident_m_e_rs, point)
            /\ Has(trace_mb, point)
         THEN [ok |-> TRUE, italic_i |-> Get(confident_italic_i, point),
               m |-> Get(confident_m_e_rs, point), mb |-> Get(trace_mb, point)]
         ELSE [ok |-> FALSE, italic_i |-> ItalicZero, m |-> <<>>, mb |-> <<>>]
    ELSE IF ans.kind = "raise"
         THEN [ok |-> FALSE, italic_i |-> ItalicZero, m |-> <<>>, mb |-> <<>>]
         ELSE LET res == get_m_e_rs_from_mb(graph.edgelist, ans.mb)
              IN  IF res.ok
                  THEN [ok |-> TRUE, italic_i |-> get_italic_i_from_m_e_rs(res.m, ans.dl),
                        m |-> res.m, mb |-> ans.mb]
                  ELSE [ok |-> FALSE, italic_i |-> ItalicZero, m |-> <<>>, mb |-> <<>>]

\* _calc_and_update(point) on the bookkeeping with description lengths
\* dlmap: the attributes after it, ok = FALSE when an exception leaves it
_calc_and_update(dlmap, point, ans) ==
    LET h == _calc_with_hook(dlmap, point, ans)
        candidate_desc_len == _cal_desc_len(point[1], point[2], h.italic_i)
        labels_ok == MaxLabel(h.mb) + 1 = point[1] + point[2]
    IN  IF ~h.ok
        THEN [ok |-> FALSE, desc_len |-> dlmap, ers |-> confident_m_e_rs,
              italic |-> confident_italic_i, trace |-> trace_mb,
              init |-> init_italic_i, cand |-> 0, m |-> <<>>]
        ELSE [ok |-> labels_ok,
              desc_len |-> Put(dlmap, point, candidate_desc_len),
              italic |-> Put(confident_italic_i, point, h.italic_i),
              ers |-> Put(confident_m_e_rs, point, h.m),
              trace |-> IF labels_ok THEN Put(trace_mb, point, h.mb) ELSE trace_mb,
              init |-> IF labels_ok THEN h.italic_i ELSE init_italic_i,
              cand |-> candidate_desc_len, m |-> h.m]

\* the answers the engine can give to this call, and the engine after it
AnswersTo(dlmap, point) ==
    IF CacheHit(dlmap, point) THEN {NoAnswer}
    ELSE IF point \in DOMAIN engine_ THEN {engine_[point]}
    ELSE EngineAnswers(graph, point, engine_)

Asked(dlmap, point, ans) ==
    IF CacheHit(dlmap, point) THEN engine_
    ELSE [p \in DOMAIN engine_ \cup {point} |-> IF p = point THEN ans ELSE engine_[p]]

\* the bookkeeping and init_italic_i as _calc_and_update leaves them
Store(R) ==
    /\ confident_desc_len' = R.desc_len
    /\ confident_m_e_rs' = R.ers
    /\ confident_italic_i' = R.italic
    /\ trace_mb' = R.trace
    /\ init_italic_i' = R.init

\* an exception leaves the running call
Raised(how) ==
    /\ pc' = "raised"
    /\ outcome' = how
    /\ items' = <<>>

\* _back_to_where_desc_len_is_lowest on the given bookkeeping
_back_to_where_desc_len_is_lowest(dlmap, ersmap) ==
    LET p == ArgMinKey(dlmap)
    IN  [ka |-> p[1], kb |-> p[2], m |-> Get(ersmap, p), desc_len |-> Get(dlmap, p)]

\* the points _check_if_local_minimum fits, in the order of
\* product(range(-k_th, k_th + 1), repeat=2)
NeighbourItems(a, b, k_th) ==
    LET w == 2 * k_th + 1
        all == [n \in 1..(w * w) |->
                   <<a + ((n - 1) \div w) - k_th, b + ((n - 1) % w) - k_th>>]
    IN  SelectSeq(all, LAMBDA x : x[1] >= 1 /\ x[2] >= 1 /\ x # <<a, b>>)

RECURSIVE Log10(_)
Log10(n) == IF n < 10 THEN 0 ELSE 1 + Log10(n \div 10)
\* how often i_0 has been multiplied by adaptive_ratio
Shrinks(i) == Log10(i.den) - 1

\* the multiplication done twice
Shrunk_twice(i, ratio) == [num |-> i.num * ratio * ratio, den |-> i.den * 100]

\* self.i_0 *= self.adaptive_ratio
Shrunk(i, ratio) == [num |-> i.num * ratio, den |-> i.den * 10]

\* tempfile.NamedTemporaryFile(delete=False): a name no existing file has
NewName(files) ==
    CHOOSE n \in 0..Cardinality(files) :
        n \notin files /\ \A m \in 0..(n - 1) : m \in files

\* os.remove(self._f_edgelist_name), FileNotFoundError caught
Removed(files, name) == files \ {name}

\* _get_tempfile_edgelist after __init__: self.f_edgelist is gone, a new
\* file is made and its name returned
_get_tempfile_edgelist(files) ==
    [files |-> files \cup {NewName(files)}, name |-> NewName(files)]

\* the files after the first lines of compute_and_update
RemovedAndMade(files, name) == _get_tempfile_edgelist(Removed(files, name))

\* no call of _calc_with_hook, virtual_moves_ds, accept_mb_merge under way
SwIdle == sweeps = [pc |-> "off"]
VmIdle == scorer = [pc |-> "off"]
AmIdle == merger = [pc |-> "off"]
AuxIdle == SwIdle /\ VmIdle /\ AmIdle

\* the variables of a component that a specification does not exercise
QIdle == q_cache = init_q_cache(2) /\ q_n = 0 /\ q_k = 0 /\ q_ret = Exact(1)
DLIdle == dl_in = 0 /\ dl_out = 0 /\ dl_prev = 0

\* the driver's variables in a specification that does not exercise it
DrvIdle ==
    /\ graph = GraphPath /\ self_ka = 1 /\ self_kb = 1 /\ i_0 = [num |-> 1, den |-> 10]
    /\ adaptive_ratio = 9 /\ init_italic_i = ItalicZero /\ exist_bookkeeping = TRUE
    /\ self_m_e_rs = <<>> /\ confident_desc_len = <<>> /\ confident_m_e_rs = <<>>
    /\ confident_italic_i = <<>> /\ trace_mb = <<>>
    /\ pc = "idle" /\ items = <<>> /\ outcome = "none" /\ runs = 0
    /\ first_estimate = <<0, 0>> /\ engine_ = <<>>
    /\ tmp_files = {} /\ f_edgelist_name = 0 /\ is_tempfile_existed = TRUE
    /\ user_calls = 0

(***************************************************************************)
(* Specification of the description-length evaluator                       *)
(***************************************************************************)
DLGraphs == {GraphPath, GraphParallel, GraphTwoThree, GraphSameSide}

\* one call of get_desc_len_from_data, nr assembled from the partition
DescLenOf(in) ==
    get_desc_len_from_data(in.g.na, in.g.nb, Len(in.g.edgelist), in.ka, in.kb,
                           in.g.edgelist, in.mb, assemble_n_r_from_mb(in.mb),
                           init_q_cache(QCacheMax))

DLInit ==
    /\ \E g \in DLGraphs : \E ka \in 1..g.na, kb \in 1..g.nb :
         \E mb \in PurePartitions(g, ka, kb) :
            dl_in = [g |-> g, ka |-> ka, kb |-> kb, mb |-> mb]
    /\ dl_out = DescLenOf(dl_in)
    /\ dl_prev = [set |-> FALSE, in |-> dl_in, out |-> dl_out]
    /\ QIdle /\ AdIdle /\ DrvIdle /\ AuxIdle

\* the caller relabels the blocks by pi and evaluates again
Relabel(pi) ==
    /\ dl_prev' = [set |-> TRUE, in |-> dl_in, out |-> dl_out]
    /\ dl_in' = [dl_in EXCEPT !.mb = [i \in DOMAIN dl_in.mb |-> pi[dl_in.mb[i]]]]
    /\ dl_out' = DescLenOf(dl_in')
    /\ UNCHANGED <<qvars, advars, drvvars, auxvars>>

DLNext ==
    \E pi \in SameTypeRelabellings(dl_in.ka, dl_in.kb) : Relabel(pi)

(***************************************************************************)
(* Specification of the integer-partition table                            *)
(***************************************************************************)
\* init_q_cache(n_max) returns no table for n_max <= 1 (old_n = 1 >= n_max)
TableSizes == 2..MaxTable

QInit ==
    /\ \E n_max \in TableSizes : q_cache = init_q_cache(n_max)
    /\ q_n = 0
    /\ q_k = 0
    /\ q_ret = Exact(1)
    /\ DLIdle /\ AdIdle /\ DrvIdle /\ AuxIdle

CallLogQ(n, k) ==
    /\ q_n' = n
    /\ q_k' = k
    /\ q_ret' = log_q(n, k, q_cache)
    /\ UNCHANGED <<q_cache, dlvars, advars, drvvars, auxvars>>

QNext ==
    \E n \in 0..(MaxTable + QSlack), k \in 0..(MaxTable + QSlack + 1) :
        CallLogQ(n, k)

SpecQ == QInit /\ [][QNext]_vars

\* C1 (as claimed): every entry [m][n] with 1 <= n <= m of the table is the
\* log of the number of partitions of m into at most n positive parts, and
\* log_q returns that entry.
C1_TableCountsPartitions ==
    /\ \A m \in 1..(Shape0(q_cache) - 1) : \A n \in 1..m :
           q_cache[m][n] = NumPartitionsAtMost(m, n)
    /\ (1 <= q_k /\ q_k <= q_n /\ q_n < Shape0(q_cache))
           => q_ret = Exact(NumPartitionsAtMost(q_n, q_k))

\* C2: for m >= 1 and n >= m, log_q(m, n, Q) = log_q(m, m, Q), inside and
\* outside the table.
C2_ClampAtM ==
    (q_n >= 1 /\ q_k >= q_n) => q_ret = log_q(q_n, q_n, q_cache)

C2_Witness ==
    /\ q_n >= 1
    /\ q_k > q_n
    /\ q_n >= Shape0(q_cache)
    /\ q_ret.kind = "asymptotic"

SpecDL == DLInit /\ [][DLNext]_vars

\* C4: relabelling the blocks by a bijection that keeps every label on its
\* side leaves the description length (adjacency + model + degree) unchanged.
C4_RelabelInvariant ==
    dl_prev.set => dl_out = dl_prev.out

C4_Witness ==
    /\ dl_prev.set
    /\ dl_in.mb # dl_prev.in.mb
    /\ dl_in.g = GraphParallel
    /\ assemble_n_r_from_mb(dl_in.mb) # assemble_n_r_from_mb(dl_prev.in.mb)

\* C14: at (Ka, Kb) = (1, 1) with at least one edge the edge-count term
\* log C(Ka Kb + e - 1, e) is exactly 0, so model_entropy is the partition
\* term alone (and the total is adjacency + partition + degree terms).
C14_NoEdgeCountTermAtOneOne ==
    (dl_in.ka = 1 /\ dl_in.kb = 1 /\ Len(dl_in.g.edgelist) >= 1) =>
        LET g  == dl_in.g
            nr == assemble_n_r_from_mb(dl_in.mb)
            part == partition_entropy(1, 1, g.na, g.nb, nr)
        IN  /\ \A e \in 1..Len(g.edgelist) :
                   /\ lbinom(dl_in.ka * dl_in.kb + e - 1, e) = VZero
                   /\ model_entropy(e, dl_in.ka, dl_in.kb, g.na, g.nb, nr) = part
            /\ dl_out = VAdd(VAdd(adjacency_entropy(g.edgelist, dl_in.mb), part),
                             degree_entropy(g.edgelist, dl_in.mb,
                                            init_q_cache(QCacheMax)))

\* the description length has been evaluated at (1, 1) on a graph of four
\* edges, and the partition term is not zero
C14_Witness ==
    /\ dl_in.ka = 1 /\ dl_in.kb = 1
    /\ Len(dl_in.g.edgelist) = 4
    /\ partition_entropy(1, 1, dl_in.g.na, dl_in.g.nb,
                         assemble_n_r_from_mb(dl_in.mb)) # VZero
    /\ dl_out # VZero

\* no (source, target) pair is written twice in the edge list
NoParallelEdges(g) ==
    \A i, j \in Idx(g.edgelist) : g.edgelist[i] = g.edgelist[j] => i = j

\* every edge joins a type-a node and a type-b node
IsBipartite(g) ==
    \A j \in Idx(g.edgelist) : g.edgelist[j][1] < g.na /\ g.edgelist[j][2] >= g.na

\* b[i] = i with Ka = n_a and Kb = n_b
OneNodePerBlock(in) ==
    /\ in.ka = in.g.na /\ in.kb = in.g.nb
    /\ \A i \in DOMAIN in.mb : in.mb[i] = i

\* C15: for the one-node-per-block partition of a bipartite graph without
\* parallel edges, adjacency_entropy is 0 and the distributed
\* degree_entropy is 0, so the description length is the partition term
\* plus the edge-count term.
C15_OneNodePerBlockOnlyModelTerm ==
    (OneNodePerBlock(dl_in) /\ IsBipartite(dl_in.g) /\ NoParallelEdges(dl_in.g)) =>
        LET g == dl_in.g
        IN  /\ adjacency_entropy(g.edgelist, dl_in.mb) = VZero
            /\ degree_entropy(g.edgelist, dl_in.mb, init_q_cache(QCacheMax)) = VZero
            /\ dl_out = VAdd(lbinom(g.na * g.nb + Len(g.edgelist) - 1, Len(g.edgelist)),
                             partition_entropy(g.na, g.nb, g.na, g.nb,
                                               assemble_n_r_from_mb(dl_in.mb)))

\* the one-node-per-block partition of the 2 + 3 graph has been evaluated;
\* nodes of degree 2 make the degree factorials of the adjacency term
\* nonzero, and the description length is not 0
C15_Witness ==
    /\ OneNodePerBlock(dl_in)
    /\ dl_in.g = GraphTwoThree
    /\ \E i \in DOMAIN dl_in.mb : Degree(dl_in.g.edgelist, i) >= 2
    /\ dl_out # VZero

(***************************************************************************)
(* Specification of the search driver                                      *)
(***************************************************************************)
DriverGraphs == {GraphTwoThree, GraphSameSide}
\* i_th in tenths: 0. and the default 0.1
IThValues == {1}
\* arguments of set_adaptive_ratio in tenths: 0.5 and 1.2
RatioValues == {5, 12}
\* points handed to compute_and_update from outside
UserPoints == {<<2, 1>>}

\* OptimalKs.__init__(engine, edgelist, types, init_ka, init_kb, i_th)
Init ==
    /\ graph \in DriverGraphs
    /\ self_ka \in 1..graph.na
    /\ self_kb \in 1..graph.nb
    /\ \E i_th \in IThValues : i_0 = [num |-> i_th, den |-> 10]
    /\ adaptive_ratio = 9
    /\ init_italic_i = ItalicZero
    /\ exist_bookkeeping = TRUE
    /\ self_m_e_rs = <<>>
    /\ confident_desc_len = <<>>
    /\ confident_m_e_rs = <<>>
    /\ confident_italic_i = <<>>
    /\ trace_mb = <<>>
    /\ pc = "idle"
    /\ items = <<>>
    /\ outcome = "none"
    /\ runs = 0
    /\ first_estimate = <<0, 0>>
    /\ engine_ = <<>>
    /\ is_tempfile_existed = TRUE
    /\ tmp_files = {0}
    /\ f_edgelist_name = 0
    /\ user_calls = 0
    /\ QIdle /\ DLIdle /\ AdIdle /\ AuxIdle

set_adaptive_ratio(ratio) ==
    /\ pc = "idle"
    /\ adaptive_ratio' = ratio
    /\ UNCHANGED <<graph, self_ka, self_kb, i_0, init_italic_i, exist_bookkeeping, self_m_e_rs,
                   bookvars, pc, items, outcome, runs,
                   first_estimate, filevars, user_calls, engine_>>
    /\ UNCHANGED <<qvars, dlvars, advars, auxvars>>

\* _clean_up_and_record_mdl_point on the given files: the current file is
\* removed
_clean_up_and_record_mdl_point(files, name) ==
    /\ tmp_files' = Removed(files, name)
    /\ f_edgelist_name' = name
    /\ is_tempfile_existed' = FALSE

\* compute_and_update(ka, kb, recompute), called from outside between two
\* iterator() calls
compute_and_update(point, recompute) ==
    /\ pc = "idle"
    /\ user_calls < MaxUserCalls
    /\ user_calls' = user_calls + 1
    /\ LET dlmap == IF recompute THEN Put(confident_desc_len, point, 0)
                    ELSE confident_desc_len
           made == RemovedAndMade(tmp_files, f_edgelist_name)
       IN  /\ tmp_files' = made.files
           /\ f_edgelist_name' = made.name
           /\ \E ans \in AnswersTo(dlmap, point) :
                 LET R == _calc_and_update(dlmap, point, ans)
                 IN  /\ Store(R)
                     /\ engine_' = Asked(dlmap, point, ans)
                     /\ IF R.ok
                        THEN outcome' = "computed" /\ UNCHANGED <<pc, items>>
                        ELSE Raised("compute_error")
    /\ UNCHANGED <<graph, self_ka, self_kb, i_0, adaptive_ratio, exist_bookkeeping,
                   self_m_e_rs, runs, first_estimate, is_tempfile_existed>>
    /\ UNCHANGED <<qvars, dlvars, advars, auxvars>>

\* iterator() is called
iterator ==
    /\ pc = "idle"
    /\ runs < MaxIteratorRuns
    /\ pc' = "loop"
    /\ outcome' = "running"
    /\ IF ~is_tempfile_existed
       THEN /\ tmp_files' = _get_tempfile_edgelist(tmp_files).files
            /\ f_edgelist_name' = _get_tempfile_edgelist(tmp_files).name
       ELSE UNCHANGED <<tmp_files, f_edgelist_name>>
    /\ UNCHANGED <<graph, self_ka, self_kb, i_0, adaptive_ratio, init_italic_i,
                   exist_bookkeeping, self_m_e_rs, bookvars, items, runs, first_estimate,
                   is_tempfile_existed, user_calls, engine_>>
    /\ UNCHANGED <<qvars, dlvars, advars, auxvars>>

\* iterator() returns self.confident_desc_len
Returned(how, dlmap) ==
    /\ pc' = "idle"
    /\ outcome' = how
    /\ items' = <<>>
    /\ runs' = runs + 1
    /\ first_estimate' = IF runs = 0 THEN ArgMinKey(dlmap) ELSE first_estimate

\* _moving_one_step_down, its first lines: with init_italic_i = 0 the
\* starting point is fitted
_moving_one_step_down_fit ==
    /\ pc = "loop"
    /\ self_ka # 1 \/ self_kb # 1
    /\ init_italic_i = ItalicZero
    /\ \E ans \in AnswersTo(confident_desc_len, <<self_ka, self_kb>>) :
         LET R == _calc_and_update(confident_desc_len, <<self_ka, self_kb>>, ans)
         IN  /\ Store(R)
             /\ engine_' = Asked(confident_desc_len, <<self_ka, self_kb>>, ans)
             /\ IF R.ok
                THEN self_m_e_rs' = R.m /\ UNCHANGED <<pc, outcome, items>>
                ELSE Raised("error") /\ UNCHANGED self_m_e_rs
    /\ UNCHANGED <<graph, self_ka, self_kb, i_0, adaptive_ratio, exist_bookkeeping, runs,
                   first_estimate, filevars, user_calls>>
    /\ UNCHANGED <<qvars, dlvars, advars, auxvars>>

\* _update_transient_state: the partition of the current point with the two
\* merged labels made one
MergedPartition(old_of_g, mlist) ==
    LET lo == Min(mlist[1], mlist[2])
        hi == IF mlist[1] <= mlist[2] THEN mlist[2] ELSE mlist[1]
    IN  [node \in DOMAIN old_of_g |->
            IF old_of_g[node] = hi THEN lo
            ELSE IF old_of_g[node] < hi THEN old_of_g[node]
            ELSE old_of_g[node] - 1]

\* the rest of _moving_one_step_down and the branch iterator() takes on it:
\* one sampled merge is kept; past the threshold the merged point becomes
\* the current one and is about to be fitted, else the state moves on
\* transiently
_moving_one_step_down ==
    /\ pc = "loop"
    /\ self_ka # 1 \/ self_kb # 1
    /\ init_italic_i # ItalicZero
    /\ IF self_m_e_rs = <<>> \/ ~IsSymmetric(self_m_e_rs)
       THEN Raised("error") /\ UNCHANGED <<self_ka, self_kb, self_m_e_rs, trace_mb>>
       ELSE \E res \in MergeResults(self_ka, self_kb, self_m_e_rs) :
              IF MatrixSum(res.m) # 2 * Len(graph.edgelist)
              THEN Raised("error") /\ UNCHANGED <<self_ka, self_kb, self_m_e_rs, trace_mb>>
              ELSE \E exceeds \in BOOLEAN :
                     IF exceeds
                     THEN /\ self_ka' = res.ka /\ self_kb' = res.kb /\ self_m_e_rs' = res.m
                          /\ pc' = "fit"
                          /\ UNCHANGED <<trace_mb, outcome, items>>
                     ELSE IF ~Has(trace_mb, <<self_ka, self_kb>>)
                     THEN Raised("error") /\ UNCHANGED <<self_ka, self_kb, self_m_e_rs, trace_mb>>
                     ELSE LET new_of_g == MergedPartition(Get(trace_mb, <<self_ka, self_kb>>),
                                                          res.mlist)
                          IN  IF MaxLabel(new_of_g) + 1 # res.ka + res.kb
                              THEN Raised("error")
                                   /\ UNCHANGED <<self_ka, self_kb, self_m_e_rs, trace_mb>>
                              ELSE /\ trace_mb' = Put(trace_mb, <<res.ka, res.kb>>,
                                                      new_of_g)
                                   /\ self_ka' = res.ka /\ self_kb' = res.kb /\ self_m_e_rs' = res.m
                                   /\ UNCHANGED <<pc, outcome, items>>
    /\ UNCHANGED <<graph, i_0, adaptive_ratio, init_italic_i, exist_bookkeeping,
                   confident_desc_len, confident_m_e_rs, confident_italic_i,
                   runs, first_estimate, filevars, user_calls, engine_>>
    /\ UNCHANGED <<qvars, dlvars, advars, auxvars>>

\* iterator(), past the threshold: the merged point is fitted; when it is
\* not the lowest so far, i_0 shrinks and the state goes back to the lowest
\* point; then the neighbourhood check starts
iterator_fit ==
    /\ pc = "fit"
    /\ \E ans \in AnswersTo(confident_desc_len, <<self_ka, self_kb>>) :
         LET R == _calc_and_update(confident_desc_len, <<self_ka, self_kb>>, ans)
             back == _back_to_where_desc_len_is_lowest(R.desc_len, R.ers)
         IN  /\ Store(R)
             /\ engine_' = Asked(confident_desc_len, <<self_ka, self_kb>>, ans)
             /\ IF ~R.ok
                THEN /\ Raised("error")
                     /\ UNCHANGED <<self_ka, self_kb, self_m_e_rs, i_0, is_tempfile_existed>>
                ELSE IF _is_this_mdl(R.desc_len, R.cand)
                THEN /\ items' = NeighbourItems(self_ka, self_kb, k_th_nb_to_search)
                     /\ pc' = "nb"
                     /\ is_tempfile_existed' = TRUE
                     /\ UNCHANGED <<self_ka, self_kb, self_m_e_rs, i_0, outcome>>
                ELSE /\ Shrinks(i_0) < MaxShrinks
                     /\ i_0' = Shrunk(i_0, adaptive_ratio)
                     /\ self_ka' = back.ka /\ self_kb' = back.kb /\ self_m_e_rs' = back.m
                     /\ items' = NeighbourItems(back.ka, back.kb, k_th_nb_to_search)
                     /\ pc' = "nb"
                     /\ is_tempfile_existed' = TRUE
                     /\ UNCHANGED outcome
    /\ UNCHANGED <<graph, adaptive_ratio, exist_bookkeeping, runs,
                   first_estimate, tmp_files, f_edgelist_name, user_calls>>
    /\ UNCHANGED <<qvars, dlvars, advars, auxvars>>

\* _check_if_local_minimum, one item of its loop: the item is fitted; when
\* it is the lowest so far the state goes back to the lowest point and the
\* merging goes on; after the last item iterator() returns
_check_if_local_minimum ==
    /\ pc = "nb"
    /\ items # <<>>
    /\ LET item == Head(items)
       IN  \E ans \in AnswersTo(confident_desc_len, item) :
             LET R == _calc_and_update(confident_desc_len, item, ans)
                 back == _back_to_where_desc_len_is_lowest(R.desc_len, R.ers)
             IN  /\ Store(R)
                 /\ engine_' = Asked(confident_desc_len, item, ans)
                 /\ IF ~R.ok
                    THEN /\ Raised("error")
                         /\ UNCHANGED <<self_ka, self_kb, self_m_e_rs, runs, first_estimate,
                                        filevars>>
                    ELSE IF _is_this_mdl(R.desc_len, R.cand)
                    THEN /\ self_ka' = back.ka /\ self_kb' = back.kb /\ self_m_e_rs' = back.m
                         /\ pc' = "loop"
                         /\ items' = <<>>
                         /\ UNCHANGED <<outcome, runs, first_estimate, filevars>>
                    ELSE IF Tail(items) = <<>>
                    THEN /\ Returned("local_minimum", R.desc_len)
                         /\ _clean_up_and_record_mdl_point(tmp_files, f_edgelist_name)
                         /\ UNCHANGED <<self_ka, self_kb, self_m_e_rs>>
                    ELSE /\ items' = Tail(items)
                         /\ UNCHANGED <<self_ka, self_kb, self_m_e_rs, pc, outcome, runs,
                                        first_estimate, filevars>>
    /\ UNCHANGED <<graph, i_0, adaptive_ratio, exist_bookkeeping, user_calls>>
    /\ UNCHANGED <<qvars, dlvars, advars, auxvars>>

\* _check_if_random_bipartite, one point of its loop, entered when the
\* while loop of iterator() ends at (1, 1): the point is fitted anew; after
\* the last point the lowest point must be (1, 1), else UserWarning
_check_if_random_bipartite ==
    /\ \/ pc = "loop" /\ self_ka = 1 /\ self_kb = 1
       \/ pc = "rb"
    /\ LET points_to_compute ==
               IF pc = "loop" THEN << <<1, 1>>, <<1, 2>>, <<2, 1>>, <<2, 2>> >>
               ELSE items
           point == Head(points_to_compute)
           dlmap == Put(confident_desc_len, point, 0)
           made == RemovedAndMade(tmp_files, f_edgelist_name)
       IN  \E ans \in AnswersTo(dlmap, point) :
             LET R == _calc_and_update(dlmap, point, ans)
             IN  /\ Store(R)
                 /\ engine_' = Asked(dlmap, point, ans)
                 /\ IF ~R.ok
                    THEN /\ Raised("error")
                         /\ tmp_files' = made.files /\ f_edgelist_name' = made.name
                         /\ UNCHANGED <<runs, first_estimate, is_tempfile_existed>>
                    ELSE IF Tail(points_to_compute) # <<>>
                    THEN /\ pc' = "rb"
                         /\ items' = Tail(points_to_compute)
                         /\ tmp_files' = made.files /\ f_edgelist_name' = made.name
                         /\ UNCHANGED <<outcome, runs, first_estimate, is_tempfile_existed>>
                    ELSE IF ArgMinKey(R.desc_len) # <<1, 1>>
                    THEN /\ Raised("warning")
                         /\ tmp_files' = made.files /\ f_edgelist_name' = made.name
                         /\ UNCHANGED <<runs, first_estimate, is_tempfile_existed>>
                    ELSE /\ Returned("random_bipartite", R.desc_len)
                         /\ _clean_up_and_record_mdl_point(made.files, made.name)
    /\ UNCHANGED <<graph, self_ka, self_kb, i_0, adaptive_ratio, exist_bookkeeping, self_m_e_rs,
                   user_calls>>
    /\ UNCHANGED <<qvars, dlvars, advars, auxvars>>

Next ==
    \/ \E ratio \in RatioValues : set_adaptive_ratio(ratio)
    \/ iterator
    \/ \E point \in UserPoints, recompute \in BOOLEAN : compute_and_update(point, recompute)
    \/ _moving_one_step_down_fit
    \/ _moving_one_step_down
    \/ iterator_fit
    \/ _check_if_local_minimum
    \/ _check_if_random_bipartite

Spec == Init /\ [][Next]_vars


\* C3: every matrix the driver holds (self.m_e_rs) or has stored
\* (confident_m_e_rs), and the matrix assemble_e_rs_from_mb gives for every
\* stored partition, is symmetric and sums to twice the number of edges.
C3_MatricesSymmetricSum2E ==
    /\ self_m_e_rs # <<>> =>
           /\ IsSymmetric(self_m_e_rs)
           /\ MatrixSum(self_m_e_rs) = 2 * Len(graph.edgelist)
    /\ \A i \in DOMAIN confident_m_e_rs :
           /\ IsSymmetric(confident_m_e_rs[i].v)
           /\ MatrixSum(confident_m_e_rs[i].v) = 2 * Len(graph.edgelist)
    /\ \A i \in DOMAIN trace_mb :
           LET e_rs == assemble_e_rs_from_mb(graph.edgelist, trace_mb[i].v)
           IN  IsSymmetric(e_rs) /\ MatrixSum(e_rs) = 2 * Len(graph.edgelist)

\* a merged matrix is held for a point reached transiently, next to fitted
\* matrices in the bookkeeping
C3_Witness ==
    /\ pc = "loop"
    /\ graph = GraphTwoThree
    /\ self_m_e_rs # <<>>
    /\ Has(trace_mb, <<self_ka, self_kb>>)
    /\ ~Has(confident_m_e_rs, <<self_ka, self_kb>>)
    /\ confident_m_e_rs # <<>>

\* C5 (as claimed): a partition the engine returned for a point whose
\* matrix is stored in the bookkeeping has max(b) + 1 = Ka + Kb and is
\* block-pure: a result violating either is never stored.
C5_RecordedPartitionsValid ==
    \A p \in DOMAIN engine_ :
        (engine_[p].kind # "raise" /\ Has(confident_m_e_rs, p)) =>
            /\ MaxLabel(engine_[p].mb) + 1 = p[1] + p[2]
            /\ IsBlockPure(graph, p[1], engine_[p].mb)

C9_AdaptiveRatioInRange ==
    0 < adaptive_ratio /\ adaptive_ratio < 10

\* C10 (as claimed): on a graph with an edge inside one side,
\* get_m_e_rs_from_mb raises for every partition the engine hands back.
C10_SameSideEdgeRejected ==
    (\E j \in Idx(graph.edgelist) :
         (graph.edgelist[j][1] < graph.na) <=> (graph.edgelist[j][2] < graph.na))
    => \A p \in DOMAIN engine_ :
           engine_[p].kind # "raise" =>
               ~get_m_e_rs_from_mb(graph.edgelist, engine_[p].mb).ok

C13_TempFilesReleased ==
    /\ Cardinality(tmp_files) <= 1
    /\ (\/ pc = "idle" /\ outcome \in {"local_minimum", "random_bipartite"}
        \/ pc = "raised" /\ outcome \in {"warning", "error"})
       => tmp_files = {}

\* C21 (as claimed): a merge that iterator() accepts transiently, made
\* from a state whose matrix is the one assembled from the edge list and
\* the partition recorded for the current point (all engine answers being
\* sound fits), leaves a matrix that is again the one assembled from the
\* edge list and the partition recorded for the new current point.
C21_MergedMatrixMatchesPartition ==
    [][(/\ pc = "loop" /\ pc' = "loop"
        /\ <<self_ka', self_kb'>> # <<self_ka, self_kb>>
        /\ \A p \in DOMAIN engine_ : engine_[p].kind = "fit"
        /\ Has(trace_mb, <<self_ka, self_kb>>)
        /\ self_m_e_rs = assemble_e_rs_from_mb(graph.edgelist,
                                               Get(trace_mb, <<self_ka, self_kb>>)))
       => self_m_e_rs' = assemble_e_rs_from_mb(graph.edgelist,
                                               Get(trace_mb', <<self_ka', self_kb'>>))]_vars

\* C22: in every state both block counts are at least 1 and, away from
\* (1, 1), merge_matrix draws only a side that has two blocks or more;
\* every merge step of iterator() lowers exactly one of K_a, K_b by exactly
\* 1, on a side that had two blocks or more, and leaves the other alone.
C22_SideDrawn ==
    /\ self_ka >= 1 /\ self_kb >= 1
    /\ self_ka * self_kb > 1 =>
          \A fr \in FromRows(self_ka, self_kb) :
             IF fr = 0 THEN self_ka >= 2 ELSE fr = self_ka /\ self_kb >= 2
C22_MergeStep ==
    (pc = "loop" /\ <<self_ka', self_kb'>> # <<self_ka, self_kb>>)
    => \/ self_ka >= 2 /\ self_ka' = self_ka - 1 /\ self_kb' = self_kb
       \/ self_kb >= 2 /\ self_kb' = self_kb - 1 /\ self_ka' = self_ka
C22_MergeLowersOneSideByOne == [](C22_SideDrawn) /\ [][C22_MergeStep]_vars
\* a transient merge has been made on side b while side a had one block
C22_Witness ==
    /\ pc = "loop" /\ self_ka = 1 /\ self_kb = 2
    /\ Has(trace_mb, <<1, 2>>) /\ ~Has(confident_desc_len, <<1, 2>>)
    /\ Has(confident_desc_len, <<1, 3>>)

\* C23: for every point recorded with a nonzero description length,
\* computing it (no recompute asked) draws no answer from the engine and
\* gives back the four bookkeeping maps as they are, order of insertion
\* included; the steps of iterator() that compute such a point leave the
\* bookkeeping and the engine unchanged.
C23_Recorded(point) ==
    \E i \in DOMAIN confident_desc_len :
        confident_desc_len[i].k = point /\ confident_desc_len[i].v # 0
C23_Fetch ==
    \A i \in DOMAIN confident_desc_len :
       LET point == confident_desc_len[i].k
           R == _calc_and_update(confident_desc_len, point, NoAnswer)
       IN  confident_desc_len[i].v # 0 =>
             /\ AnswersTo(confident_desc_len, point) = {NoAnswer}
             /\ Asked(confident_desc_len, point, NoAnswer) = engine_
             /\ R.desc_len = confident_desc_len
             /\ R.ers = confident_m_e_rs
             /\ R.italic = confident_italic_i
             /\ R.trace = trace_mb
C23_FetchStep ==
    (\/ pc = "fit" /\ C23_Recorded(<<self_ka, self_kb>>)
     \/ pc = "nb" /\ items # <<>> /\ C23_Recorded(Head(items)))
    => UNCHANGED <<bookvars, engine_>>
C23_CachedPointComputedWithoutEffect == [](C23_Fetch) /\ [][C23_FetchStep]_vars
\* second run of iterator(), back at the point the first run returned: its
\* neighbours were all computed then, and the one just passed in the
\* neighbourhood check is recorded with a nonzero description length
C23_Witness ==
    /\ runs = 1 /\ pc = "nb" /\ items # <<>>
    /\ first_estimate = <<self_ka, self_kb>>
    /\ LET nb == NeighbourItems(self_ka, self_kb, k_th_nb_to_search)
       IN  /\ Len(items) < Len(nb)
           /\ C23_Recorded(nb[Len(nb) - Len(items)])

\* C25 (as claimed): entry k of assemble_n_k_from_edgelist is the number
\* of nodes of degree k, for every k from 0 on; the entries sum to the
\* number of nodes, and entry k is the sum over the blocks r of eta_rk.
C25_DegreeHistogramCountsNodes ==
    LET edgelist == dl_in.g.edgelist
        mb     == dl_in.mb
        n_k    == assemble_n_k_from_edgelist(edgelist, mb)
        eta_rk == assemble_eta_rk_from_edgelist_and_mb(edgelist, mb)
    IN  /\ \A d \in DOMAIN n_k :
               /\ n_k[d] = Cardinality({i \in DOMAIN mb : Degree(edgelist, i) = d})
               /\ n_k[d] = IntSumOver([r \in DOMAIN eta_rk |-> eta_rk[r][d]],
                                      DOMAIN eta_rk)
        /\ IntSumOver(n_k, DOMAIN n_k) = Cardinality(DOMAIN mb)

\* the labels 0 .. point[1] + point[2] - 1 that mb does not use
UnusedLabels(mb, point) == (0..(point[1] + point[2] - 1)) \ Range(mb)

\* C26 (as claimed): when the engine is asked at a point and answers with a
\* partition that leaves a label of 0 .. K_a + K_b - 1 unused, the driver
\* raises and records nothing of the fit: matrix, profile likelihood and
\* partition maps are unchanged, and the description length of the point
\* is what it was, or the 0 a recompute has put there.
C26_EmptyBlockRejected ==
    [][\A p \in DOMAIN engine_' \ DOMAIN engine_ :
          (engine_'[p].kind # "raise" /\ UnusedLabels(engine_'[p].mb, p) # {})
          => /\ pc' = "raised"
             /\ UNCHANGED <<confident_m_e_rs, confident_italic_i, trace_mb>>
             /\ \A i \in DOMAIN confident_desc_len' :
                   confident_desc_len'[i].k = p =>
                      \/ confident_desc_len'[i].v = 0
                      \/ /\ Has(confident_desc_len, p)
                         /\ confident_desc_len'[i].v = Get(confident_desc_len, p)]_vars

\* the keys of an insertion-ordered map
Keys(d) == {d[i].k : i \in DOMAIN d}

C28_FailedComputeLeavesBookkeeping ==
    [][(pc # "raised" /\ pc' = "raised" /\ outcome' # "warning")
       => UNCHANGED bookvars]_vars

\* C29 (as claimed): when the merge loop is about to compare against
\* i_0 * init_italic_i at a fitted point the driver has just been put at
\* (by the rollback that ends a neighbourhood search, or by the return of
\* an earlier iterator() call), init_italic_i is the profile likelihood
\* stored for that point.  Engine answers are sound fits.
C29_AtFittedPoint ==
    /\ pc' = "loop"
    /\ init_italic_i' # ItalicZero
    /\ <<self_ka', self_kb'>> # <<1, 1>>
    /\ Has(confident_italic_i', <<self_ka', self_kb'>>)
    /\ \A p \in DOMAIN engine_' : engine_'[p].kind = "fit"
C29_ReferenceIsCurrentPoint ==
    [][(pc \in {"nb", "idle"} /\ C29_AtFittedPoint)
       => init_italic_i' = Get(confident_italic_i', <<self_ka', self_kb'>>)]_vars

(***************************************************************************)
(* One call of iterator() with an engine fixed beforehand, under fairness  *)
(***************************************************************************)
\* engines that answer every point the graph allows with a sound fit whose
\* description length is fixed from the start; equal ranks are ties
FixedEngines(gr) ==
    LET points == {p \in (1..gr.na) \X (1..gr.nb) : TRUE}
    IN  {[p \in points |-> Answer("fit", Canon(gr, p[1], p[2]), d[p])] :
            d \in {f \in [points -> DLValues \cup {0}] :
                       \A p \in points : (f[p] = 0) <=> (p = <<1, 1>>)}}

\* OptimalKs.__init__ on the graph with two and three nodes, any start
FairInit ==
    /\ graph = GraphTwoThree
    /\ self_ka \in 1..graph.na
    /\ self_kb \in 1..graph.nb
    /\ \E i_th \in IThValues : i_0 = [num |-> i_th, den |-> 10]
    /\ adaptive_ratio = 9
    /\ init_italic_i = ItalicZero
    /\ exist_bookkeeping = TRUE
    /\ self_m_e_rs = <<>>
    /\ confident_desc_len = <<>>
    /\ confident_m_e_rs = <<>>
    /\ confident_italic_i = <<>>
    /\ trace_mb = <<>>
    /\ pc = "idle"
    /\ items = <<>>
    /\ outcome = "none"
    /\ runs = 0
    /\ first_estimate = <<0, 0>>
    /\ engine_ \in FixedEngines(graph)
    /\ is_tempfile_existed = TRUE
    /\ tmp_files = {0}
    /\ f_edgelist_name = 0
    /\ user_calls = 0
    /\ QIdle /\ DLIdle /\ AdIdle /\ AuxIdle

FairNext ==
    \/ iterator
    \/ _moving_one_step_down_fit
    \/ _moving_one_step_down
    \/ iterator_fit
    \/ _check_if_local_minimum
    \/ _check_if_random_bipartite

\* inside iterator(): the states in which the driver has a step to take
Running == pc \in {"loop", "fit", "nb", "rb"}
\* merge_matrix can draw side a (side b): the state is at a merge step and
\* the side has two blocks or more
CanMergeA == pc = "loop" /\ init_italic_i # ItalicZero /\ self_ka >= 2
CanMergeB == pc = "loop" /\ init_italic_i # ItalicZero /\ self_kb >= 2

\* iterator() is called; the driver is a sequential program that keeps
\* running (weak fairness of its steps, the enabling condition being
\* Running: in a running state exactly one step applies); random.choices in
\* merge_matrix draws each side again and again (strong fairness of the
\* merge on each side, the enabling condition being CanMergeA, CanMergeB)
Fairness ==
    /\ WF_vars(iterator)
    /\ []<>(~Running) \/ []<><<FairNext>>_vars
    /\ <>[](~CanMergeA) \/ []<><<_moving_one_step_down /\ self_ka' = self_ka - 1>>_vars
    /\ <>[](~CanMergeB) \/ []<><<_moving_one_step_down /\ self_kb' = self_kb - 1>>_vars

SpecFair == FairInit /\ [][FairNext]_vars /\ Fairness

DefaultK == 10
DefaultITh == 1

\* a graph with ten nodes on each side, for which the defaults are allowed
GraphTenTen == Graph(10, 10, << <<0, 10>>, <<1, 11>> >>)
ParamGraphs == {GraphPath, GraphTwoThree, GraphTenTen}
\* arguments given to the constructor and to set_params; i_th in tenths
KValues == {1, 2, 3, DefaultK}
IThArgs == {0, DefaultITh, 10}

\* the three assertions the constructor and set_params share
ParamsAllowed(gr, ka, kb, i_th) ==
    /\ 0 <= i_th /\ i_th < 10
    /\ ka <= gr.na
    /\ kb <= gr.nb

\* OptimalKs.__init__ with arguments that pass its assertions
ParamsInit ==
    /\ graph \in ParamGraphs
    /\ \E ka \in KValues, kb \in KValues, i_th \in IThArgs :
          /\ ParamsAllowed(graph, ka, kb, i_th)
          /\ self_ka = ka /\ self_kb = kb
          /\ i_0 = [num |-> i_th, den |-> 10]
    /\ adaptive_ratio = 9
    /\ init_italic_i = ItalicZero
    /\ exist_bookkeeping = TRUE
    /\ self_m_e_rs = <<>>
    /\ confident_desc_len = <<>>
    /\ confident_m_e_rs = <<>>
    /\ confident_italic_i = <<>>
    /\ trace_mb = <<>>
    /\ pc = "idle"
    /\ items = <<>>
    /\ outcome = "none"
    /\ runs = 0
    /\ first_estimate = <<0, 0>>
    /\ engine_ = <<>>
    /\ is_tempfile_existed = TRUE
    /\ tmp_files = {0}
    /\ f_edgelist_name = 0
    /\ user_calls = 0
    /\ QIdle /\ DLIdle /\ AdIdle /\ AuxIdle

\* the body of set_params: the four assignments, then the assertions
SetParams(init_ka, init_kb, i_th) ==
    /\ self_ka' = init_ka
    /\ self_kb' = init_kb
    /\ i_0' = [num |-> i_th, den |-> 10]
    /\ init_italic_i' = ItalicZero
    /\ IF ParamsAllowed(graph, init_ka, init_kb, i_th)
       THEN outcome' = "params_set" /\ UNCHANGED <<pc, items>>
       ELSE Raised("params_error")

set_params(init_ka, init_kb, i_th) ==
    /\ pc = "idle"
    /\ SetParams(init_ka, init_kb, i_th)
    /\ UNCHANGED <<graph, adaptive_ratio, exist_bookkeeping, self_m_e_rs, bookvars, runs,
                   first_estimate, filevars, user_calls, engine_>>
    /\ UNCHANGED <<qvars, dlvars, advars, auxvars>>

\* clean(): the four maps are emptied, then set_params is called with the
\* defaults
clean ==
    /\ pc = "idle"
    /\ confident_desc_len' = <<>>
    /\ confident_m_e_rs' = <<>>
    /\ confident_italic_i' = <<>>
    /\ trace_mb' = <<>>
    /\ SetParams(DefaultK, DefaultK, DefaultITh)
    /\ UNCHANGED <<graph, adaptive_ratio, exist_bookkeeping, self_m_e_rs, runs,
                   first_estimate, filevars, user_calls, engine_>>
    /\ UNCHANGED <<qvars, dlvars, advars, auxvars>>

ParamsNext ==
    \/ \E ka \in KValues, kb \in KValues, i_th \in IThArgs : set_params(ka, kb, i_th)
    \/ clean
    \/ \E point \in UserPoints, recompute \in BOOLEAN : compute_and_update(point, recompute)

SpecParams == ParamsInit /\ [][ParamsNext]_vars

\* C30 (as claimed): clean() does not raise, leaves the four bookkeeping
\* maps empty and the parameters within the constructor's checks; and a
\* set_params() or clean() that raises leaves parameters and bookkeeping as
\* they were.
C30_Clean ==
    clean => /\ pc' # "raised"
             /\ confident_desc_len' = <<>> /\ confident_m_e_rs' = <<>>
             /\ confident_italic_i' = <<>> /\ trace_mb' = <<>>
             /\ ParamsAllowed(graph, self_ka', self_kb', i_0'.num)
C30_RaiseKeepsState ==
    ((clean \/ \E ka \in KValues, kb \in KValues, i_th \in IThArgs :
                  set_params(ka, kb, i_th))
     /\ pc' = "raised")
    => UNCHANGED <<self_ka, self_kb, i_0, bookvars>>
C30_CleanAndSetParamsSafe == [][C30_Clean /\ C30_RaiseKeepsState]_vars

EngineInit == AdInit /\ QIdle /\ DLIdle /\ DrvIdle /\ AuxIdle

SpecEngine == EngineInit /\ [][AdNext]_vars

\* C8 (as claimed): after a process run with a nonzero return code the
\* adapter has raised an error that carries the command line; it neither
\* returns a partition nor runs the process again.
C8_NonzeroExitRaises ==
    (ad_runs # <<>> /\ ad_runs[Len(ad_runs)] # 0) =>
        /\ ad_pc = "raised"
        /\ ad_err = ErrorWith("action_str")

(***************************************************************************)
(* Specification of the sweeps of one uncached _calc_with_hook call        *)
(***************************************************************************)
\* new_desc_len of one run of the engine: runs of a stochastic engine at
\* one point may differ
SweepDescLens == {1, 2, 3}
\* old_desc_len handed to _calc_and_update: the default 0. or the
\* description length of the current point
OldDescLens == {0, 2, 3}

SweepsInit ==
    /\ \E par \in BOOLEAN, n \in 1..MaxSweeps, old \in OldDescLens :
         sweeps = [pc |-> "run", is_par_ |-> par, max_n_sweeps_ |-> n,
                   old_desc_len |-> old, results |-> <<>>,
                   calculate_times |-> 0, result |-> 0]
    /\ QIdle /\ DLIdle /\ AdIdle /\ DrvIdle /\ VmIdle /\ AmIdle

\* list(self.executor(n_cores_, 60, lambda x: run(ka, kb),
\* list(range(max_n_sweeps_)))): one run per index
executor ==
    /\ sweeps.pc = "run"
    /\ sweeps.is_par_
    /\ \E rs \in [1..sweeps.max_n_sweeps_ -> SweepDescLens] :
         sweeps' = [sweeps EXCEPT !.results = rs, !.pc = "min"]
    /\ UNCHANGED <<qvars, dlvars, advars, drvvars, scorer, merger>>

\* old_desc_len is None, no parallelization: results = [run(ka, kb)]
run_single ==
    /\ sweeps.pc = "run"
    /\ ~sweeps.is_par_
    /\ sweeps.old_desc_len = 0
    /\ \E new_desc_len \in SweepDescLens :
         sweeps' = [sweeps EXCEPT !.results = <<new_desc_len>>, !.pc = "min"]
    /\ UNCHANGED <<qvars, dlvars, advars, drvvars, scorer, merger>>

\* old_desc_len given, no parallelization: one pass of the while loop
run_while ==
    /\ sweeps.pc = "run"
    /\ ~sweeps.is_par_
    /\ sweeps.old_desc_len # 0
    /\ sweeps.calculate_times < sweeps.max_n_sweeps_
    /\ \E new_desc_len \in SweepDescLens :
         LET times == IF new_desc_len < sweeps.old_desc_len
                      THEN sweeps.max_n_sweeps_
                      ELSE sweeps.calculate_times + 1
         IN  sweeps' = [sweeps EXCEPT
                           !.results = Append(sweeps.results, new_desc_len),
                           !.calculate_times = times,
                           !.pc = IF times < sweeps.max_n_sweeps_ THEN "run" ELSE "min"]
    /\ UNCHANGED <<qvars, dlvars, advars, drvvars, scorer, merger>>

\* min(results, key=lambda x: x[2]): the first of the smallest
MinIndex(results) ==
    CHOOSE i \in Idx(results) :
        /\ \A j \in Idx(results) : results[i] <= results[j]
        /\ \A j \in 1..(i - 1) : results[j] > results[i]

min_results ==
    /\ sweeps.pc = "min"
    /\ sweeps' = [sweeps EXCEPT !.result = MinIndex(sweeps.results), !.pc = "done"]
    /\ UNCHANGED <<qvars, dlvars, advars, drvvars, scorer, merger>>

SweepsNext ==
    \/ executor
    \/ run_single
    \/ run_while
    \/ min_results

SpecSweeps == SweepsInit /\ [][SweepsNext]_vars

\* C16 (as claimed): a point not served from the cache is run
\* max_n_sweeps_ times, in parallel or one after the other, and the result
\* kept is the one of smallest description length, the lowest run index
\* among equals.
C16_BestOfNSweeps ==
    sweeps.pc = "done" =>
        /\ Len(sweeps.results) = sweeps.max_n_sweeps_
        /\ \A j \in Idx(sweeps.results) :
               sweeps.results[sweeps.result] <= sweeps.results[j]
        /\ \A j \in 1..(sweeps.result - 1) :
               sweeps.results[j] > sweeps.results[sweeps.result]

(***************************************************************************)
(* Specification of the merge scorer, utils.virtual_moves_ds               *)
(***************************************************************************)
\* exp of an exact logarithm as a fraction: the primes with positive
\* exponent make the numerator, the others the denominator
RECURSIVE Pow(_, _)
Pow(b, n) == IF n <= 0 THEN 1 ELSE b * Pow(b, n - 1)

RECURSIVE ProdOver(_, _, _)
ProdOver(v, S, sign) ==
    IF S = {} THEN 1
    ELSE LET p == CHOOSE x \in S : TRUE
         IN  Pow(p, sign * v[p]) * ProdOver(v, S \ {p}, sign)

VNum(v) == ProdOver(v, Primes, 1)
VDen(v) == ProdOver(v, Primes, -1)

\* a < b and 0 <= a for exact logarithms
VLess(a, b) == VNum(a) * VDen(b) < VNum(b) * VDen(a)
VNonNeg(a) == VNum(a) >= VDen(a)

\* np.max(mlist) of a pair
MaxOfPair(mlist) == IF mlist[1] >= mlist[2] THEN mlist[1] ELSE mlist[2]

\* the test that makes the loop skip a pool entry
IsSkipped(mlist, ka, shape0) ==
    \/ MaxOfPair(mlist) >= ka /\ ka > MaxOfPair(mlist)
    \/ MaxOfPair(mlist) = 0 /\ ka = 1
    \/ MaxOfPair(mlist) = ka /\ shape0 = 1 + ka

\* the columns of the slice: ka + 1 .. size when both labels are below
\* ka, 0 .. ka - 1 otherwise
MoveColumns(mlist, ka, shape0) ==
    LET size == shape0 - 1
    IN  IF MaxOfPair(mlist) < ka
        THEN (ka + 1)..size
        ELSE 0..(ka - 1)

\* _ds of one pool entry (x_1 .. x_4 for _1 .. _4)
MoveScore(ori_e_rs, ka, mlist) ==
    LET ori_e_r == RowSums(ori_e_rs)
        cols == MoveColumns(mlist, ka, Cardinality(DOMAIN ori_e_rs))
        x_1 == [c \in cols |-> ori_e_rs[mlist[1]][c]]
        x_2 == [c \in cols |-> ori_e_rs[mlist[2]][c]]
        x_3 == ori_e_r[mlist[1]]
        x_4 == ori_e_r[mlist[2]]
        sums == VAdd(VAdd(VScale(-1, VSum([c \in cols |-> gammaln(x_1[c] + x_2[c] + 1)])),
                          VSum([c \in cols |-> gammaln(x_1[c] + 1)])),
                     VSum([c \in cols |-> gammaln(x_2[c] + 1)]))
    IN  VSub(VAdd(sums, gammaln(x_3 + x_4 + 1)),
             VAdd(gammaln(x_3 + 1), gammaln(x_4 + 1)))

\* t = np.inf; dS = 0.; _mlist = np.zeros(2)
ScorerStart == [inf |-> TRUE, t |-> VZero, dS |-> VZero, _mlist |-> <<0, 0>>]

\* the loop over the pool, in the order the pool is iterated
RECURSIVE ScoreLoop(_, _, _, _)
ScoreLoop(ori_e_rs, ka, mlists, acc) ==
    IF mlists = <<>> THEN acc
    ELSE LET mlist == Head(mlists)
             _ds == MoveScore(ori_e_rs, ka, mlist)
         IN  IF IsSkipped(mlist, ka, Cardinality(DOMAIN ori_e_rs))
             THEN ScoreLoop(ori_e_rs, ka, Tail(mlists), acc)
             ELSE IF VNonNeg(_ds) /\ (acc.inf \/ VLess(_ds, acc.t))
             THEN ScoreLoop(ori_e_rs, ka, Tail(mlists),
                            [inf |-> FALSE, t |-> _ds, dS |-> _ds, _mlist |-> mlist])
             ELSE ScoreLoop(ori_e_rs, ka, Tail(mlists), acc)

virtual_moves_ds(ori_e_rs, mlists, ka) ==
    ScoreLoop(ori_e_rs, ka, mlists, ScorerStart)

\* entries of one pool
MaxPool == 2

\* block-edge matrices with their Ka: those of the partitions with Ka and
\* Kb blocks of two bipartite graphs
ScorerInputs ==
    UNION {{[ori_e_rs |-> assemble_e_rs_from_mb(g.edgelist, Canon(g, a, b)), ka |-> a] :
               a \in 1..g.na, b \in 1..g.nb} : g \in {GraphPath, GraphTwoThree}}

\* pools of pairs (min, max) of block labels, as sequences in iteration
\* order
Pools(shape0) ==
    LET pairs == {pr \in (0..(shape0 - 1)) \X (0..(shape0 - 1)) : pr[1] <= pr[2]}
    IN  UNION {[1..n -> pairs] : n \in 0..MaxPool}

ScorerInit ==
    /\ \E in \in ScorerInputs :
         scorer = [pc |-> "ready", ori_e_rs |-> in.ori_e_rs, ka |-> in.ka,
                   mlists |-> <<>>, found |-> FALSE, dS |-> VZero, _mlist |-> <<0, 0>>]
    /\ QIdle /\ DLIdle /\ AdIdle /\ DrvIdle /\ SwIdle /\ AmIdle

\* dS, _mlist = virtual_moves_ds(ori_e_rs, mlists, ka)
CallVirtualMoves(mlists) ==
    /\ scorer.pc = "ready"
    /\ LET r == virtual_moves_ds(scorer.ori_e_rs, mlists, scorer.ka)
       IN  scorer' = [scorer EXCEPT !.pc = "returned", !.mlists = mlists,
                                    !.found = ~r.inf, !.dS = r.dS, !._mlist = r._mlist]
    /\ UNCHANGED <<qvars, dlvars, advars, drvvars, sweeps, merger>>

ScorerNext ==
    \E mlists \in Pools(Cardinality(DOMAIN scorer.ori_e_rs)) : CallVirtualMoves(mlists)

SpecScorer == ScorerInit /\ [][ScorerNext]_vars

\* p and q are two different blocks of one type
IsSameTypePair(mlist, ka) ==
    /\ mlist[1] # mlist[2]
    /\ (mlist[1] < ka) <=> (mlist[2] < ka)

\* C17 (as claimed): the score reported for a same-type pair (p, q) is
\* the closed form with s over all blocks of the other type, Ka..K-1 for
\* a type-a pair and 0..Ka-1 for a type-b pair.
C17_ScoreOverAllOppositeColumns ==
    (scorer.pc = "returned" /\ scorer.found /\ IsSameTypePair(scorer._mlist, scorer.ka)) =>
        LET e_rs == scorer.ori_e_rs
            e_r  == RowSums(e_rs)
            K    == Cardinality(DOMAIN e_rs)
            p    == scorer._mlist[1]
            q    == scorer._mlist[2]
            opposite == IF p < scorer.ka THEN scorer.ka..(K - 1) ELSE 0..(scorer.ka - 1)
            delta ==
                VSub(VAdd(VAdd(VAdd(VScale(-1, VSum([c \in opposite |->
                                                        gammaln(e_rs[p][c] + e_rs[q][c] + 1)])),
                                    VSum([c \in opposite |-> gammaln(e_rs[p][c] + 1)])),
                               VSum([c \in opposite |-> gammaln(e_rs[q][c] + 1)])),
                          gammaln(e_r[p] + e_r[q] + 1)),
                     VAdd(gammaln(e_r[p] + 1), gammaln(e_r[q] + 1)))
        IN  scorer.dS = delta

\* C18 (as claimed): the pair reported as the merge to perform has two
\* different labels of one type; an entry with p = q or with one block of
\* each type is never reported.
C18_ReportedPairIsValidMerge ==
    (scorer.pc = "returned" /\ scorer.found) =>
        IsSameTypePair(scorer._mlist, scorer.ka)

\* C19 (as claimed): when every entry of a nonempty pool is skipped, the
\* scorer does not return the default pair (0, 0) with cost 0.
C19_NoDefaultWhenAllSkipped ==
    (/\ scorer.pc = "returned"
     /\ scorer.mlists # <<>>
     /\ \A i \in Idx(scorer.mlists) :
            IsSkipped(scorer.mlists[i], scorer.ka, Cardinality(DOMAIN scorer.ori_e_rs)))
    => ~(scorer._mlist = <<0, 0>> /\ scorer.dS = VZero)

(***************************************************************************)
(* Specification of the relabelling of an accepted merge:                  *)
(* utils.accept_mb_merge and OptimalKs._update_transient_state             *)
(***************************************************************************)
\* accept_mb_merge without mlist.sort()
accept_mb_merge_no_sort(mb, mlist) ==
    [_node_id \in DOMAIN mb |->
        IF mb[_node_id] = mlist[2] THEN mlist[1]
        ELSE IF mb[_node_id] < mlist[2] THEN mb[_node_id]
        ELSE mb[_node_id] - 1]

\* mlist.sort()
SortedPair(mlist) ==
    IF mlist[1] <= mlist[2] THEN mlist ELSE <<mlist[2], mlist[1]>>

\* _mb, a new array; mb is only read
accept_mb_merge(mb, mlist) ==
    LET sorted == SortedPair(mlist)
    IN  [_node_id \in DOMAIN mb |->
            IF mb[_node_id] = sorted[2] THEN sorted[1]
            ELSE IF mb[_node_id] < sorted[2] THEN mb[_node_id]
            ELSE mb[_node_id] - 1]

\* the nodes whose partitions are merged: 2 of type a, 3 of type b
MergerGraph == GraphTwoThree

\* block-pure partitions that use exactly the labels 0..ka+kb-1
ExactPartitions(g, ka, kb) ==
    {mb \in PurePartitions(g, ka, kb) : Range(mb) = 0..(ka + kb - 1)}

\* two different labels of one type, in either order
MergePairs(ka, kb) ==
    {pr \in (0..(ka + kb - 1)) \X (0..(ka + kb - 1)) : IsSameTypePair(pr, ka)}

MergerInit ==
    /\ \E ka \in 1..MergerGraph.na, kb \in 1..MergerGraph.nb :
         \E mb \in ExactPartitions(MergerGraph, ka, kb), mlist \in MergePairs(ka, kb) :
            merger = [pc |-> "ready", ka |-> ka, kb |-> kb, mb |-> mb,
                      mb_before |-> mb, mlist |-> mlist, arg |-> mlist,
                      _mb |-> mb, new_of_g |-> mb, merges |-> 0]
    /\ QIdle /\ DLIdle /\ AdIdle /\ DrvIdle /\ SwIdle /\ VmIdle

\* _mb = accept_mb_merge(mb, mlist), and new_of_g of
\* _update_transient_state for the same partition and pair; mlist is left
\* sorted
AcceptMerge ==
    /\ merger.pc = "ready"
    /\ merger' = [merger EXCEPT !.pc = "merged",
                                !._mb = accept_mb_merge(merger.mb, merger.mlist),
                                !.new_of_g = MergedPartition(merger.mb, merger.mlist),
                                !.mlist = SortedPair(merger.mlist),
                                !.merges = merger.merges + 1]
    /\ UNCHANGED <<qvars, dlvars, advars, drvvars, sweeps, scorer>>

\* the merged partition becomes the one to merge next
MergeOn ==
    /\ merger.pc = "merged"
    /\ LET ka == IF merger.mlist[2] < merger.ka THEN merger.ka - 1 ELSE merger.ka
           kb == IF merger.mlist[2] < merger.ka THEN merger.kb ELSE merger.kb - 1
       IN  \E mlist \in MergePairs(ka, kb) :
             merger' = [pc |-> "ready", ka |-> ka, kb |-> kb, mb |-> merger._mb,
                        mb_before |-> merger._mb, mlist |-> mlist, arg |-> mlist,
                        _mb |-> merger._mb, new_of_g |-> merger._mb,
                        merges |-> merger.merges]
    /\ UNCHANGED <<qvars, dlvars, advars, drvvars, sweeps, scorer>>

MergerNext ==
    \/ AcceptMerge
    \/ MergeOn

SpecMerger == MergerInit /\ [][MergerNext]_vars

\* C20: for a partition with exactly the labels 0..K-1 and a same-type
\* pair p < q, the accepted merge sends block q to p, keeps the labels
\* below q and lowers those above q by one; the result has exactly the
\* labels 0..K-2 and is block-pure with one block fewer on the merged
\* side; _update_transient_state relabels alike; the partition handed in
\* is unchanged.
C20_MergeRelabelsContiguously ==
    merger.pc = "merged" =>
        LET p == Min(merger.arg[1], merger.arg[2])
            q == IF merger.arg[1] <= merger.arg[2] THEN merger.arg[2] ELSE merger.arg[1]
            K == merger.ka + merger.kb
            ka_merged == IF q < merger.ka THEN merger.ka - 1 ELSE merger.ka
        IN  /\ \A n \in DOMAIN merger.mb_before :
                   LET l == merger.mb_before[n]
                   IN  merger._mb[n] = IF l = q THEN p ELSE IF l < q THEN l ELSE l - 1
            /\ Range(merger._mb) = 0..(K - 2)
            /\ IsBlockPure(MergerGraph, ka_merged, merger._mb)
            /\ merger.new_of_g = merger._mb
            /\ merger.mb = merger.mb_before

\* a merge of two type-a blocks handed over as (q, p) has lowered the
\* type-b labels above them, after an earlier merge on side b
C20_Witness ==
    /\ merger.pc = "merged"
    /\ merger.merges = 2
    /\ merger.arg[1] > merger.arg[2]
    /\ merger.arg[1] < merger.ka
    /\ merger.kb = 2
    /\ \E n \in DOMAIN merger.mb : merger.mb[n] > merger.arg[1]
                                      /\ merger._mb[n] = merger.mb[n] - 1

====
